---- MODULE Spec2Model ----
(***************************************************************************)
(* Demand-paged virtual memory simulator: page tables (SM1), free frame     *)
(* list (SM2), local LRU selection, the MMU request loop, the FCFS         *)
(* scheduler and the workload processes.                                   *)
(*                                                                         *)
(* The specifications share the variables:                                 *)
(*   Spec      the MMU loop over the stores as master_run fills them,       *)
(*             fed with arbitrary request messages;                        *)
(*   SpecLib   the same loop over stores filled by pt_init_all / ffl_init;  *)
(*   SpecRun   the MMU loop fed by one process's reference string, with     *)
(*             the replies recorded in order;                              *)
(*   SpecPool  the free frame list API (ffl_init, ffl_alloc, ffl_free)      *)
(*             called directly, as tools/memory_test.c does;               *)
(*   SpecFifo  the same calls on valid indices, recording the order in     *)
(*             which the frames became free;                               *)
(*   SpecTable choose_lru_victim_local called on any contents of SM1;      *)
(*   SpecPte   pt_set_mapping and pt_touch called on contents of SM1;       *)
(*   SpecSys   the simulation master_run starts: k processes, the          *)
(*             scheduler and the MMU over the message queues MQ1..MQ3;      *)
(*   SpecSysFair  SpecSys with every component scheduled again and again.  *)
(***************************************************************************)
EXTENDS Integers, Sequences, FiniteSets

\* ------------------------------------------------------------------ bounds
MaxK == 2
MaxM == 2
MaxF == 2
\* the page tables hold at most this many entries in all (k * m)
MaxPtes == 4
\* the logical clock g_ts is capped here
MaxTs == 3
\* how far below zero ffl_alloc calls may drive count in SpecPool
MaxOver == 2
\* longest reference string of SpecRun
MaxRefs == 3
\* largest ref_len master_run is given in SpecSys
MaxRefLen == 2

\* ---------------------------------------------------- program constants
MMU_PAGE_FAULT == -1
MMU_INVALID_PAGE == -2
MMU_END_OF_REF == -9
MSGTYPE_PROC_REQ == 1
MSGTYPE_MMU_REPLY == 2
MSGTYPE_SCHED_NOTIFY == 3

VARIABLES
  k,            \* number of processes (mmu_run argument)
  m,            \* pages per process (page table length)
  f,            \* number of physical frames
  pt,           \* SM1: k*m page table entries, k tables back to back
  ffl,          \* SM2: the free frame list
  g_ts,         \* mmu.c: global timestamp
  procs_cmpltd, \* mmu.c: end-of-stream sentinels seen
  mmu_pc,       \* "recv" in the receive loop, "done" after it, "crashed"
  req,          \* the request the MMU handled last
  reply,        \* the replies the MMU sent while handling req
  notes,        \* the scheduler notifications the MMU sent while handling req
  outcome,      \* the branch of the handler taken for req
  op,           \* SpecPool: the library call made last, with its return value
  outstanding,  \* SpecPool: per frame, allocations not yet released
  free_order,   \* SpecFifo: the frames free, in the order they became free
  script,       \* SpecRun: the reference string, the legal bound and p_ind
  results,      \* SpecRun: per reference handled, result / pfh / outcome
  eos_senders,  \* the senders (ints[0]) of the sentinels the MMU has handled
  refs,         \* SpecSys: per process, its reference string (argv)
  proc_pc,      \* SpecSys: per process, its position in process_run
  proc_i,       \* SpecSys: per process, the loop index i of process_run
  scheduled,    \* SpecSys: per process, the flag sched_handler sets
  mq_ready,     \* SpecSys: MQ1, the registrations in flight
  mq_proc,      \* SpecSys: MQ3, requests and replies in flight
  mq_sched,     \* SpecSys: MQ2, the notifications in flight
  sched_pc,     \* SpecSys: "ready" at msgrcv on MQ1, "notes" at msgrcv on
                \* MQ2, "done" after the while loop
  sched_pid,    \* SpecSys: the pid the scheduler resumed last
  finished_count, \* sched.c: completions counted
  reg_order,    \* SpecSys: the pids registered, in the order they were sent
  admitted,     \* SpecSys: the pids sent SIGCONT, in order
  marks         \* SpecSys: per completion counted, the pid and the
                \* notification consumed

sysvars == <<refs, proc_pc, proc_i, scheduled, mq_ready, mq_proc, mq_sched,
             sched_pc, sched_pid, finished_count, reg_order, admitted, marks>>

vars == <<k, m, f, pt, ffl, g_ts, procs_cmpltd, mmu_pc, req, reply, notes,
          outcome, op, outstanding, free_order,
                 script, results, eos_senders, sysvars>>

\* --------------------------------------------------------- types.h helpers
\* pt_base_for_pid: index of the first entry of pid's table inside SM1
pt_base_for_pid(pid, mm) == pid * mm

\* pte_addr: index of (pid, page_no) inside SM1; no bounds check
pte_addr(pid, mm, page_no) == pt_base_for_pid(pid, mm) + page_no

\* ---------------------------------------------------------- page table ops
\* pt_init_all: every entry {frame_no -1, valid 0, last_used 0}; -1 on bad k, m
pt_init_all(kk, mm) ==
  IF kk <= 0 \/ mm <= 0
  THEN [rc |-> -1, pt |-> <<>>]
  ELSE [rc |-> 0,
        pt |-> [i \in 0..(kk * mm - 1) |->
                  [frame_no |-> -1, valid |-> 0, last_used |-> 0]]]

\* pt_set_mapping that leaves the valid field as it finds it
pt_set_mapping_ValidNotSet(t, pid, mm, page_no, frame_no, ts) ==
  IF pid < 0 \/ mm <= 0 \/ page_no < 0 \/ page_no >= mm \/ frame_no < 0
  THEN [rc |-> -1, pt |-> t]
  ELSE [rc |-> 0,
        pt |-> [t EXCEPT ![pte_addr(pid, mm, page_no)].frame_no = frame_no,
                         ![pte_addr(pid, mm, page_no)].last_used = ts]]

\* pt_set_mapping without the upper bound on page_no
pt_set_mapping_NoUpperCheck(t, pid, mm, page_no, frame_no, ts) ==
  IF pid < 0 \/ mm <= 0 \/ page_no < 0 \/ frame_no < 0
  THEN [rc |-> -1, pt |-> t]
  ELSE [rc |-> 0,
        pt |-> [t EXCEPT ![pte_addr(pid, mm, page_no)] =
                  [frame_no |-> frame_no, valid |-> 1, last_used |-> ts]]]

pt_set_mapping(t, pid, mm, page_no, frame_no, ts) ==
  IF pid < 0 \/ mm <= 0 \/ page_no < 0 \/ page_no >= mm \/ frame_no < 0
  THEN [rc |-> -1, pt |-> t]
  ELSE [rc |-> 0,
        pt |-> [t EXCEPT ![pte_addr(pid, mm, page_no)] =
                  [frame_no |-> frame_no, valid |-> 1, last_used |-> ts]]]

pt_invalidate(t, pid, mm, page_no) ==
  IF pid < 0 \/ mm <= 0 \/ page_no < 0 \/ page_no >= mm
  THEN [rc |-> -1, pt |-> t]
  ELSE [rc |-> 0,
        pt |-> [t EXCEPT ![pte_addr(pid, mm, page_no)].frame_no = -1,
                         ![pte_addr(pid, mm, page_no)].valid = 0]]

\* pt_touch without the test of the valid field
pt_touch_NoValidCheck(t, pid, mm, page_no, ts) ==
  IF pid < 0 \/ mm <= 0 \/ page_no < 0 \/ page_no >= mm
  THEN [rc |-> -1, pt |-> t]
  ELSE [rc |-> 0,
        pt |-> [t EXCEPT ![pte_addr(pid, mm, page_no)].last_used = ts]]

pt_touch(t, pid, mm, page_no, ts) ==
  IF pid < 0 \/ mm <= 0 \/ page_no < 0 \/ page_no >= mm
  THEN [rc |-> -1, pt |-> t]
  ELSE IF t[pte_addr(pid, mm, page_no)].valid = 0
       THEN [rc |-> -1, pt |-> t]
       ELSE [rc |-> 0,
             pt |-> [t EXCEPT ![pte_addr(pid, mm, page_no)].last_used = ts]]

\* is_legal_page with the upper comparison off by one (<= for <)
is_legal_page_UpperInclusive(page_no, m_req_for_pid) ==
  page_no >= 0 /\ page_no <= m_req_for_pid

is_legal_page(page_no, m_req_for_pid) ==
  page_no >= 0 /\ page_no < m_req_for_pid

\* ------------------------------------------------------- free frame list
\* ffl_init: frames[i] = i, count = f, head = tail = 0
ffl_init(ff) ==
  [total_frames |-> ff, count |-> ff, head |-> 0, tail |-> ff % ff,
   frames |-> [i \in 0..(ff - 1) |-> i]]

\* ffl_alloc: the only refusal is count > total_frames
ffl_alloc(l) ==
  IF l.count > l.total_frames
  THEN [ret |-> -1, ffl |-> l]
  ELSE [ret |-> l.frames[l.head],
        ffl |-> [l EXCEPT !.head = (l.head + 1) % l.total_frames,
                          !.count = l.count - 1]]

\* ffl_free without the refusal on a full list
ffl_free_NoFullCheck(l, frame_idx) ==
  IF frame_idx < 0 \/ frame_idx >= l.total_frames
  THEN [rc |-> -1, ffl |-> l]
  ELSE [rc |-> 0,
        ffl |-> [l EXCEPT !.frames[l.tail] = frame_idx,
                          !.tail = (l.tail + 1) % l.total_frames,
                          !.count = l.count + 1]]

ffl_free(l, frame_idx) ==
  IF frame_idx < 0 \/ frame_idx >= l.total_frames
  THEN [rc |-> -1, ffl |-> l]
  ELSE IF l.count >= l.total_frames
       THEN [rc |-> -1, ffl |-> l]
       ELSE [rc |-> 0,
             ffl |-> [l EXCEPT !.frames[l.tail] = frame_idx,
                               !.tail = (l.tail + 1) % l.total_frames,
                               !.count = l.count + 1]]

\* --------------------------------------------------------- local LRU scan
RECURSIVE lru_scan_LastOldest(_, _, _, _, _, _)
\* the scan with <= for <: among equally old entries the last one is kept
lru_scan_LastOldest(t, base, mm, p, victim, oldest_ts) ==
  IF p >= mm
  THEN victim
  ELSE IF t[base + p].valid # 0
          /\ (victim = -1 \/ t[base + p].last_used <= oldest_ts)
       THEN lru_scan_LastOldest(t, base, mm, p + 1, p, t[base + p].last_used)
       ELSE lru_scan_LastOldest(t, base, mm, p + 1, victim, oldest_ts)

RECURSIVE lru_scan(_, _, _, _, _, _)
\* the for loop of choose_lru_victim_local, from page p on
lru_scan(t, base, mm, p, victim, oldest_ts) ==
  IF p >= mm
  THEN victim
  ELSE IF t[base + p].valid # 0
          /\ (victim = -1 \/ t[base + p].last_used < oldest_ts)
       THEN lru_scan(t, base, mm, p + 1, p, t[base + p].last_used)
       ELSE lru_scan(t, base, mm, p + 1, victim, oldest_ts)

choose_lru_victim_local(t, pid, mm) ==
  IF pid < 0 \/ mm <= 0
  THEN -1
  ELSE lru_scan(t, pt_base_for_pid(pid, mm), mm, 0, -1, 0)

\* ------------------------------------------------------------ the stores
\* master_run: the loop that fills SM1 before the children are spawned
master_init_pt(kk, mm) ==
  [i \in 0..(kk * mm - 1) |-> [frame_no |-> -1, valid |-> -1, last_used |-> -1]]

\* master_run: the assignments that fill SM2 before the children are spawned
master_init_ffl(ff) ==
  [total_frames |-> ff, count |-> 0, head |-> 0, tail |-> ff % ff,
   frames |-> [i \in 0..(ff - 1) |-> i]]

\* --------------------------------------------------------------- the MMU
\* What a read of pte_addr(...) past the end of SM1 can yield: the fields of
\* whatever lies there, or a fault of the MMU process.
OobReads ==
  {[segv |-> TRUE, valid |-> 0, frame_no |-> -1],
   [segv |-> FALSE, valid |-> 0, frame_no |-> -1],
   [segv |-> FALSE, valid |-> 1, frame_no |-> -1],
   [segv |-> FALSE, valid |-> 1, frame_no |-> 0]}

\* resolve_access with the hit stamping the clock before the increment
\* (last_used = g_ts++ for last_used = ++g_ts)
resolve_access_StaleHit(t, l, ts, p_ind, page_no, mm, m_req_for_pid, oob) ==
  IF ~is_legal_page(page_no, m_req_for_pid)
  THEN [result |-> MMU_INVALID_PAGE, pfh |-> 0, pt |-> t, ffl |-> l,
        g_ts |-> ts, outcome |-> "invalid"]
  ELSE
    LET idx == pte_addr(p_ind, mm, page_no)
        inside == idx \in DOMAIN t
        pte == IF inside THEN t[idx] ELSE oob
    IN
    IF pte.valid > 0
    THEN [result |-> pte.frame_no, pfh |-> 0,
          pt |-> IF inside THEN [t EXCEPT ![idx].last_used = ts] ELSE t,
          ffl |-> l, g_ts |-> ts + 1, outcome |-> "hit"]
    ELSE
      LET a == ffl_alloc(l) IN
      IF a.ret >= 0
      THEN [result |-> a.ret, pfh |-> 1,
            pt |-> pt_set_mapping(t, p_ind, mm, page_no, a.ret, ts + 1).pt,
            ffl |-> a.ffl, g_ts |-> ts + 1, outcome |-> "alloc"]
      ELSE
        LET victim_page == choose_lru_victim_local(t, p_ind, mm) IN
        IF victim_page < 0
        THEN [result |-> MMU_PAGE_FAULT, pfh |-> 0, pt |-> t, ffl |-> a.ffl,
              g_ts |-> ts, outcome |-> "unresolvable"]
        ELSE
          LET victim_frame == t[pte_addr(p_ind, mm, victim_page)].frame_no
              t1 == pt_invalidate(t, p_ind, mm, victim_page).pt
          IN [result |-> victim_frame, pfh |-> 1,
              pt |-> pt_set_mapping(t1, p_ind, mm, page_no, victim_frame,
                                    ts + 1).pt,
              ffl |-> a.ffl, g_ts |-> ts + 1, outcome |-> "evict"]

\* resolve_access: result, *pfh_out and the stores and clock it leaves.
\* oob is what the read of an entry outside SM1 yields.
resolve_access(t, l, ts, p_ind, page_no, mm, m_req_for_pid, oob) ==
  IF ~is_legal_page(page_no, m_req_for_pid)
  THEN [result |-> MMU_INVALID_PAGE, pfh |-> 0, pt |-> t, ffl |-> l,
        g_ts |-> ts, outcome |-> "invalid"]
  ELSE
    LET idx == pte_addr(p_ind, mm, page_no)
        inside == idx \in DOMAIN t
        pte == IF inside THEN t[idx] ELSE oob
    IN
    IF pte.valid > 0
    THEN [result |-> pte.frame_no, pfh |-> 0,
          pt |-> IF inside THEN [t EXCEPT ![idx].last_used = ts + 1] ELSE t,
          ffl |-> l, g_ts |-> ts + 1, outcome |-> "hit"]
    ELSE
      LET a == ffl_alloc(l) IN
      IF a.ret >= 0
      THEN [result |-> a.ret, pfh |-> 1,
            pt |-> pt_set_mapping(t, p_ind, mm, page_no, a.ret, ts + 1).pt,
            ffl |-> a.ffl, g_ts |-> ts + 1, outcome |-> "alloc"]
      ELSE
        LET victim_page == choose_lru_victim_local(t, p_ind, mm) IN
        IF victim_page < 0
        THEN [result |-> MMU_PAGE_FAULT, pfh |-> 0, pt |-> t, ffl |-> a.ffl,
              g_ts |-> ts, outcome |-> "unresolvable"]
        ELSE
          LET victim_frame == t[pte_addr(p_ind, mm, victim_page)].frame_no
              t1 == pt_invalidate(t, p_ind, mm, victim_page).pt
          IN [result |-> victim_frame, pfh |-> 1,
              pt |-> pt_set_mapping(t1, p_ind, mm, page_no, victim_frame,
                                    ts + 1).pt,
              ffl |-> a.ffl, g_ts |-> ts + 1, outcome |-> "evict"]

\* send_proc_reply: the reply message
send_proc_reply(pid, result) == [pid |-> pid, result |-> result]

\* the notification with the flag always set
notify_scheduler_AlwaysHandled(pid, pfh_handled) == [pid |-> pid, pfh |-> 1]

\* the notification with the flag always clear
notify_scheduler_FlagDropped(pid, pfh_handled) == [pid |-> pid, pfh |-> 0]

\* notify_scheduler: the notification message
notify_scheduler(pid, pfh_handled) ==
  [pid |-> pid, pfh |-> IF pfh_handled # 0 THEN 1 ELSE 0]

NoReq == [p_ind |-> -1, page_no |-> -1, m_req |-> -1]

\* One pass of the receive loop of mmu_run for the message (p_ind, page_no,
\* m_req_for_pid): the end-of-stream branch or resolve_access, the reply and
\* the notification.
mmu_run_pass(p_ind, page_no, m_req_for_pid, oob) ==
  /\ mmu_pc = "recv"
  /\ req' = [p_ind |-> p_ind, page_no |-> page_no, m_req |-> m_req_for_pid]
  /\ IF page_no = MMU_END_OF_REF
     THEN /\ reply' = <<send_proc_reply(p_ind, MMU_END_OF_REF)>>
          /\ notes' = <<notify_scheduler(p_ind, 0)>>
          /\ procs_cmpltd' = procs_cmpltd + 1
          /\ mmu_pc' = IF procs_cmpltd + 1 >= k THEN "done" ELSE "recv"
          /\ outcome' = "eos"
          /\ eos_senders' = eos_senders \cup {p_ind}
          /\ UNCHANGED <<pt, ffl, g_ts>>
     ELSE IF /\ is_legal_page(page_no, m_req_for_pid)
             /\ pte_addr(p_ind, m, page_no) \notin DOMAIN pt
             /\ oob.segv
          THEN /\ mmu_pc' = "crashed"
               /\ reply' = <<>>
               /\ notes' = <<>>
               /\ outcome' = "segv"
               /\ UNCHANGED <<pt, ffl, g_ts, procs_cmpltd, eos_senders>>
          ELSE LET r == resolve_access(pt, ffl, g_ts, p_ind, page_no, m,
                                       m_req_for_pid, oob)
               IN /\ pt' = r.pt
                  /\ ffl' = r.ffl
                  /\ g_ts' = r.g_ts
                  /\ reply' = <<send_proc_reply(p_ind, r.result)>>
                  /\ notes' = IF r.pfh # 0
                              THEN <<notify_scheduler(p_ind, 1)>>
                              ELSE <<>>
                  /\ outcome' = r.outcome
                  /\ UNCHANGED <<procs_cmpltd, mmu_pc, eos_senders>>
  /\ UNCHANGED <<k, m, f>>

\* the pass, taken while the clock is below its cap
MmuHandle(p_ind, page_no, m_req_for_pid, oob) ==
  /\ g_ts < MaxTs
  /\ mmu_run_pass(p_ind, page_no, m_req_for_pid, oob)

\* the page numbers and legal bounds a request message may carry
\* (up to one past the table length m)
ReqPages == {MMU_END_OF_REF} \cup (-1..(m + 1))

ReqBounds == 1..(m + 1)

\* what the read of the entry of (p_ind, page_no) can yield when it is made
\* outside SM1; one value where no such read is made
OobChoices(p_ind, page_no, m_req_for_pid) ==
  IF /\ page_no # MMU_END_OF_REF
     /\ is_legal_page(page_no, m_req_for_pid)
     /\ pte_addr(p_ind, m, page_no) \notin DOMAIN pt
  THEN OobReads
  ELSE {[segv |-> FALSE, valid |-> 0, frame_no |-> -1]}

\* mmu_run receives whatever message is next on MQ3
MmuStep ==
  /\ \E p_ind \in 0..(k - 1), page_no \in ReqPages, m_req_for_pid \in ReqBounds :
       \E oob \in OobChoices(p_ind, page_no, m_req_for_pid) :
         MmuHandle(p_ind, page_no, m_req_for_pid, oob)
  /\ UNCHANGED <<op, outstanding, free_order,
                 script, results, sysvars>>

NoOp == [name |-> "none", arg |-> -1, ret |-> 0]

\* no scheduler and no workload process: the values the variables of SpecSys
\* keep in the other specifications
NoSys ==
  /\ refs = <<>>
  /\ proc_pc = <<>>
  /\ proc_i = <<>>
  /\ scheduled = <<>>
  /\ mq_ready = <<>>
  /\ mq_proc = <<>>
  /\ mq_sched = <<>>
  /\ sched_pc = "none"
  /\ sched_pid = -1
  /\ finished_count = 0
  /\ reg_order = <<>>
  /\ admitted = <<>>
  /\ marks = <<>>

InitMmu ==
  /\ g_ts = 0
  /\ procs_cmpltd = 0
  /\ mmu_pc = "recv"
  /\ req = NoReq
  /\ reply = <<>>
  /\ notes = <<>>
  /\ outcome = "none"
  /\ op = NoOp
  /\ outstanding = [i \in 0..(f - 1) |-> 0]
  /\ free_order = <<>>
  /\ script = [p_ind |-> 0, refs |-> <<>>, m_req |-> 0]
  /\ results = <<>>
  /\ eos_senders = {}

\* the MMU at the top of its loop, no scheduler and no process
InitEngine == InitMmu /\ NoSys

\* the arguments of master_run: num_procs, pgs_per_proc, n_frms
InitConfig ==
  /\ k \in 1..MaxK
  /\ m \in 1..MaxM
  /\ f \in 1..MaxF
  /\ k * m <= MaxPtes

\* the simulation: master_run creates and fills the stores, then spawns mmu
Init ==
  /\ InitConfig
  /\ pt = master_init_pt(k, m)
  /\ ffl = master_init_ffl(f)
  /\ InitEngine

Next == MmuStep

Spec == Init /\ [][Next]_vars

\* the stores as the library initialisers leave them (tools/memory_test.c)
InitLib ==
  /\ InitConfig
  /\ pt = pt_init_all(k, m).pt
  /\ ffl = ffl_init(f)
  /\ InitEngine

SpecLib == InitLib /\ [][Next]_vars

\* ------------------------------------------------ one process's requests
\* process_run: the pages of ref_str a process may be given
ScriptPages == -1..m

RECURSIVE SeqsUpTo(_, _)
\* all sequences over S of length at most n
SeqsUpTo(S, n) ==
  IF n = 0
  THEN {<<>>}
  ELSE LET shorter == SeqsUpTo(S, n - 1)
       IN shorter \cup {Append(q, x) : q \in {r \in shorter : Len(r) = n - 1},
                                       x \in S}

\* the simulation with one process admitted: its p_ind, reference string and
\* the legal bound its requests carry
InitRun ==
  /\ InitConfig
  /\ pt = master_init_pt(k, m)
  /\ ffl = master_init_ffl(f)
  /\ g_ts = 0
  /\ procs_cmpltd = 0
  /\ mmu_pc = "recv"
  /\ req = NoReq
  /\ reply = <<>>
  /\ notes = <<>>
  /\ outcome = "none"
  /\ op = NoOp
  /\ outstanding = [i \in 0..(f - 1) |-> 0]
  /\ free_order = <<>>
  /\ script \in [p_ind : 0..(k - 1), refs : SeqsUpTo(ScriptPages, MaxRefs),
                 m_req : ReqBounds]
  /\ results = <<>>
  /\ eos_senders = {}
  /\ NoSys

\* process_run, one turn of its for loop: send the next reference, take the
\* reply; the process returns on MMU_INVALID_PAGE. The MMU handles the request
\* in between.
RunStep ==
  /\ Len(results) < Len(script.refs)
  /\ \A i \in 1..Len(results) : results[i].result # MMU_INVALID_PAGE
  /\ \E oob \in OobChoices(script.p_ind, script.refs[Len(results) + 1],
                           script.m_req) :
       MmuHandle(script.p_ind, script.refs[Len(results) + 1], script.m_req, oob)
  /\ results' = IF reply' = <<>>
                THEN results
                ELSE Append(results,
                            [result |-> reply'[1].result,
                             pfh |-> IF notes' = <<>> THEN 0 ELSE notes'[1].pfh,
                             outcome |-> outcome'])
  /\ UNCHANGED <<op, outstanding, free_order,
                 script, sysvars>>

NextRun == RunStep

SpecRun == InitRun /\ [][NextRun]_vars

\* ------------------------------------------- the free frame list, called
\* ffl_init on a fresh SM2, as main of tools/memory_test.c does
InitPool ==
  /\ k = 1
  /\ m = 1
  /\ f \in 1..MaxF
  /\ pt = pt_init_all(k, m).pt
  /\ ffl = ffl_init(f)
  /\ g_ts = 0
  /\ procs_cmpltd = 0
  /\ mmu_pc = "recv"
  /\ req = NoReq
  /\ reply = <<>>
  /\ notes = <<>>
  /\ outcome = "none"
  /\ op = NoOp
  /\ outstanding = [i \in 0..(f - 1) |-> 0]
  /\ free_order = <<>>
  /\ script = [p_ind |-> 0, refs |-> <<>>, m_req |-> 0]
  /\ results = <<>>
  /\ eos_senders = {}
  /\ NoSys

\* the sequence q without the first occurrence of x, if there is one
without_first(q, x) ==
  IF \E i \in 1..Len(q) : q[i] = x
  THEN LET i == CHOOSE j \in 1..Len(q) :
                  q[j] = x /\ \A h \in 1..(j - 1) : q[h] # x
       IN SubSeq(q, 1, i - 1) \o SubSeq(q, i + 1, Len(q))
  ELSE q

\* a call of ffl_alloc; a frame it returns is outstanding from then on
PoolAllocCall ==
  /\ ffl.count > -MaxOver
  /\ LET a == ffl_alloc(ffl)
     IN /\ ffl' = a.ffl
        /\ op' = [name |-> "ffl_alloc", arg |-> -1, ret |-> a.ret]
        /\ outstanding' = IF a.ret \in DOMAIN outstanding
                          THEN [outstanding EXCEPT ![a.ret] = @ + 1]
                          ELSE outstanding
  /\ UNCHANGED <<k, m, f, pt, g_ts, procs_cmpltd, mmu_pc, req, reply, notes,
                 outcome, script, results, eos_senders, sysvars>>

\* a call of ffl_free(frame_idx): of a frame that is outstanding, or a call
\* the list must refuse (an index outside [0, f), or a list that is full)
PoolFreeCall(frame_idx) ==
  /\ IF frame_idx \in DOMAIN outstanding /\ ffl.count < ffl.total_frames
     THEN outstanding[frame_idx] > 0
     ELSE TRUE
  /\ LET r == ffl_free(ffl, frame_idx)
     IN /\ ffl' = r.ffl
        /\ op' = [name |-> "ffl_free", arg |-> frame_idx, ret |-> r.rc]
        /\ outstanding' = IF r.rc = 0
                          THEN [outstanding EXCEPT ![frame_idx] = @ - 1]
                          ELSE outstanding
  /\ UNCHANGED <<k, m, f, pt, g_ts, procs_cmpltd, mmu_pc, req, reply, notes,
                 outcome, script, results, eos_senders, sysvars>>

PoolAlloc == PoolAllocCall /\ UNCHANGED free_order

PoolFree(frame_idx) == PoolFreeCall(frame_idx) /\ UNCHANGED free_order

NextPool ==
  \/ PoolAlloc
  \/ \E frame_idx \in -1..f : PoolFree(frame_idx)

SpecPool == InitPool /\ [][NextPool]_vars

\* the same calls, with the order in which the frames became free kept
InitFifo ==
  /\ k = 1
  /\ m = 1
  /\ f \in 1..MaxF
  /\ pt = pt_init_all(k, m).pt
  /\ ffl = ffl_init(f)
  /\ g_ts = 0
  /\ procs_cmpltd = 0
  /\ mmu_pc = "recv"
  /\ req = NoReq
  /\ reply = <<>>
  /\ notes = <<>>
  /\ outcome = "none"
  /\ op = NoOp
  /\ outstanding = [i \in 0..(f - 1) |-> 0]
  /\ free_order = [i \in 1..f |-> i - 1]
  /\ script = [p_ind |-> 0, refs |-> <<>>, m_req |-> 0]
  /\ results = <<>>
  /\ eos_senders = {}
  /\ NoSys

\* ffl_alloc: the frame returned is free no longer
FifoAlloc ==
  /\ PoolAllocCall
  /\ free_order' = without_first(free_order, op'.ret)

\* ffl_free: a frame released is the one free for the shortest time
FifoFree(frame_idx) ==
  /\ PoolFreeCall(frame_idx)
  /\ free_order' = IF op'.ret = 0
                   THEN Append(free_order, frame_idx)
                   ELSE free_order

NextFifo ==
  \/ FifoAlloc
  \/ \E frame_idx \in 0..(f - 1) : FifoFree(frame_idx)

SpecFifo == InitFifo /\ [][NextFifo]_vars

\* --------------------------------------------- the LRU selector, called
\* the values an entry of SM1 can hold: as pt_init_all or master_run leave
\* it, as pt_set_mapping / pt_touch leave it, as pt_invalidate leaves it
PteValues ==
  {[frame_no |-> -1, valid |-> -1, last_used |-> -1]}
  \cup {[frame_no |-> -1, valid |-> 0, last_used |-> ts] : ts \in 0..MaxTs}
  \cup {[frame_no |-> 0, valid |-> 1, last_used |-> ts] : ts \in 0..MaxTs}

\* any contents of SM1, nothing else running
InitTable ==
  /\ k \in 1..MaxK
  /\ m \in 1..MaxM
  /\ k * m <= MaxPtes
  /\ f = 1
  /\ pt \in [0..(k * m - 1) -> PteValues]
  /\ ffl = ffl_init(f)
  /\ InitEngine

\* a call of choose_lru_victim_local(sm1, pid, m)
TableChoose(pid) ==
  /\ op.name = "none"
  /\ op' = [name |-> "choose_lru_victim_local", arg |-> pid,
            ret |-> choose_lru_victim_local(pt, pid, m)]
  /\ UNCHANGED <<k, m, f, pt, ffl, g_ts, procs_cmpltd, mmu_pc, req, reply,
                 notes, outcome, outstanding, free_order,
                 script, results, eos_senders,
                 sysvars>>

NextTable == \E pid \in 0..(k - 1) : TableChoose(pid)

SpecTable == InitTable /\ [][NextTable]_vars

\* ------------------------------------------- the page table API, called
\* directly on SM1 as tools/memory_test.c does
\* an entry of SM1 as master_run leaves it, as pt_init_all leaves it, and
\* mapped to frame 0
PteStart ==
  {[frame_no |-> -1, valid |-> -1, last_used |-> -1],
   [frame_no |-> -1, valid |-> 0, last_used |-> 0],
   [frame_no |-> 0, valid |-> 1, last_used |-> 0]}

InitPte ==
  /\ k \in 1..MaxK
  /\ m \in 1..MaxM
  /\ k * m <= MaxPtes
  /\ f \in 1..MaxF
  /\ pt \in [0..(k * m - 1) -> PteStart]
  /\ ffl = ffl_init(f)
  /\ InitEngine

\* a call of pt_set_mapping(sm1, pid, m, page_no, frame_no, ts)
PteSetMapping(pid, page_no, frame_no, ts) ==
  LET r == pt_set_mapping(pt, pid, m, page_no, frame_no, ts)
  IN /\ op.name = "none"
     /\ pt' = r.pt
     /\ op' = [name |-> "pt_set_mapping",
               arg |-> <<pid, page_no, frame_no, ts>>, ret |-> r.rc]
     /\ UNCHANGED <<k, m, f, ffl, g_ts, procs_cmpltd, mmu_pc, req, reply,
                    notes, outcome, outstanding, free_order,
                    script, results, eos_senders,
                    sysvars>>

\* a call of pt_touch(sm1, pid, m, page_no, ts)
PteTouch(pid, page_no, ts) ==
  LET r == pt_touch(pt, pid, m, page_no, ts)
  IN /\ op.name = "none"
     /\ pt' = r.pt
     /\ op' = [name |-> "pt_touch", arg |-> <<pid, page_no, ts>>,
               ret |-> r.rc]
     /\ UNCHANGED <<k, m, f, ffl, g_ts, procs_cmpltd, mmu_pc, req, reply,
                    notes, outcome, outstanding, free_order,
                    script, results, eos_senders,
                    sysvars>>

\* the next call, pt_touch on the same page with a later timestamp
PteTouchAgain(ts) ==
  /\ op.name = "pt_touch"
  /\ ts > op.arg[3]
  /\ LET r == pt_touch(pt, op.arg[1], m, op.arg[2], ts)
     IN /\ pt' = r.pt
        /\ op' = [name |-> "pt_touch_again",
                  arg |-> <<op.arg[1], op.arg[2], ts>>, ret |-> r.rc]
  /\ UNCHANGED <<k, m, f, ffl, g_ts, procs_cmpltd, mmu_pc, req, reply,
                 notes, outcome, outstanding, free_order,
                 script, results, eos_senders,
                 sysvars>>

NextPte ==
  \/ \E pid \in 0..(k - 1), page_no \in -1..m, frame_no \in -1..(f - 1),
        ts \in 0..MaxTs : PteSetMapping(pid, page_no, frame_no, ts)
  \/ \E pid \in 0..(k - 1), page_no \in -1..m, ts \in 0..MaxTs :
        PteTouch(pid, page_no, ts)
  \/ \E ts \in 0..MaxTs : PteTouchAgain(ts)

SpecPte == InitPte /\ [][NextPte]_vars

\* -------------------------------------- scheduler, processes and the MMU
\* ipc_msg_t: mtype and ints[0..2]; src and cause record which process's
\* message, of which kind, made the sender send this one
ipc_msg(mtype, i0, i1, i2, src, cause) ==
  [mtype |-> mtype, ints |-> <<i0, i1, i2>>, src |-> src, cause |-> cause]

\* ipc_send_msg: msgsnd appends to the queue
ipc_send_msg(q, msg) == Append(q, msg)

\* a message of type mtype is on the queue: msgrcv would not block
ipc_has_msg(q, mtype) == \E i \in 1..Len(q) : q[i].mtype = mtype

\* msgrcv taking the last message of the type
ipc_recv_msg_LastOfType(q, mtype) ==
  LET i == CHOOSE j \in 1..Len(q) :
             /\ q[j].mtype = mtype
             /\ \A h \in (j + 1)..Len(q) : q[h].mtype # mtype
  IN [msg |-> q[i], q |-> SubSeq(q, 1, i - 1) \o SubSeq(q, i + 1, Len(q))]

\* ipc_recv_msg: msgrcv with mtype > 0 takes the first message of that type
ipc_recv_msg(q, mtype) ==
  LET i == CHOOSE j \in 1..Len(q) :
             /\ q[j].mtype = mtype
             /\ \A h \in 1..(j - 1) : q[h].mtype # mtype
  IN [msg |-> q[i], q |-> SubSeq(q, 1, i - 1) \o SubSeq(q, i + 1, Len(q))]

\* getpid() of the process spawned with index p: some number that is no index
getpid(p) == 100 + p

\* true for every notification, whatever its flag
sched_note_finishes_AnyNote(pfh) == TRUE

\* the test `pfh == 0` of scheduler_run: the notification ends the turn
sched_note_finishes(pfh) == pfh = 0

\* where process_run goes with loop index i: the body of the for loop, or
\* past it
loop_head(p, i) == IF i < Len(refs[p]) THEN "send" ELSE "end"

\* process_run: registration on MQ1
ProcRegister(p) ==
  /\ proc_pc[p] = "start"
  /\ mq_ready' = ipc_send_msg(mq_ready,
                     ipc_msg(MSGTYPE_PROC_REQ, getpid(p), 0, 0, p, "reg"))
  /\ reg_order' = Append(reg_order, getpid(p))
  /\ proc_pc' = [proc_pc EXCEPT ![p] = "check"]
  /\ UNCHANGED <<refs, proc_i, scheduled, mq_proc, mq_sched, sched_pc,
                 sched_pid, finished_count, admitted, marks>>

\* process_run: the test of `while (!scheduled)`, then `scheduled = 0`
ProcCheck(p) ==
  /\ proc_pc[p] = "check"
  /\ IF scheduled[p] # 0
     THEN /\ scheduled' = [scheduled EXCEPT ![p] = 0]
          /\ proc_pc' = [proc_pc EXCEPT ![p] = loop_head(p, 0)]
     ELSE /\ proc_pc' = [proc_pc EXCEPT ![p] = "topause"]
          /\ UNCHANGED scheduled
  /\ UNCHANGED <<refs, proc_i, mq_ready, mq_proc, mq_sched, sched_pc,
                 sched_pid, finished_count, reg_order, admitted, marks>>

\* process_run: the call of pause(), which returns only on a signal that
\* arrives after it was entered
ProcPause(p) ==
  /\ proc_pc[p] = "topause"
  /\ proc_pc' = [proc_pc EXCEPT ![p] = "paused"]
  /\ UNCHANGED <<refs, proc_i, scheduled, mq_ready, mq_proc, mq_sched,
                 sched_pc, sched_pid, finished_count, reg_order, admitted,
                 marks>>

\* process_run: the request for ref_str[i], with ref_len as the legal bound
ProcSend(p) ==
  /\ proc_pc[p] = "send"
  /\ mq_proc' = ipc_send_msg(mq_proc,
                    ipc_msg(MSGTYPE_PROC_REQ, p, refs[p][proc_i[p] + 1],
                            Len(refs[p]), p, "req"))
  /\ proc_pc' = [proc_pc EXCEPT ![p] = "recv"]
  /\ UNCHANGED <<refs, proc_i, scheduled, mq_ready, mq_sched, sched_pc,
                 sched_pid, finished_count, reg_order, admitted, marks>>

\* the reply is taken, and on MMU_INVALID_PAGE the process leaves the loop
\* for the end marker instead of returning
ProcRecv_EndOnInvalid(p) ==
  /\ proc_pc[p] = "recv"
  /\ ipc_has_msg(mq_proc, MSGTYPE_MMU_REPLY)
  /\ LET r == ipc_recv_msg(mq_proc, MSGTYPE_MMU_REPLY)
         result == r.msg.ints[2]
     IN /\ mq_proc' = r.q
        /\ IF result = MMU_INVALID_PAGE
           THEN /\ proc_pc' = [proc_pc EXCEPT ![p] = "end"]
                /\ UNCHANGED proc_i
           ELSE /\ proc_i' = [proc_i EXCEPT ![p] = @ + 1]
                /\ proc_pc' = [proc_pc EXCEPT
                                 ![p] = loop_head(p, proc_i[p] + 1)]
  /\ UNCHANGED <<refs, scheduled, mq_ready, mq_sched, sched_pc, sched_pid,
                 finished_count, reg_order, admitted, marks>>

\* process_run: the reply is taken (the first MMU reply on MQ3); the process
\* returns on MMU_INVALID_PAGE, else goes on with i + 1
ProcRecv(p) ==
  /\ proc_pc[p] = "recv"
  /\ ipc_has_msg(mq_proc, MSGTYPE_MMU_REPLY)
  /\ LET r == ipc_recv_msg(mq_proc, MSGTYPE_MMU_REPLY)
         result == r.msg.ints[2]
     IN /\ mq_proc' = r.q
        /\ IF result = MMU_INVALID_PAGE
           THEN /\ proc_pc' = [proc_pc EXCEPT ![p] = "exited"]
                /\ UNCHANGED proc_i
           ELSE /\ proc_i' = [proc_i EXCEPT ![p] = @ + 1]
                /\ proc_pc' = [proc_pc EXCEPT
                                 ![p] = loop_head(p, proc_i[p] + 1)]
  /\ UNCHANGED <<refs, scheduled, mq_ready, mq_sched, sched_pc, sched_pid,
                 finished_count, reg_order, admitted, marks>>

\* process_run: the end marker, carrying getpid(), then return
ProcEnd(p) ==
  /\ proc_pc[p] = "end"
  /\ mq_proc' = ipc_send_msg(mq_proc,
                    ipc_msg(MSGTYPE_PROC_REQ, getpid(p), MMU_END_OF_REF, -1,
                            p, "end"))
  /\ proc_pc' = [proc_pc EXCEPT ![p] = "exited"]
  /\ UNCHANGED <<refs, proc_i, scheduled, mq_ready, mq_sched, sched_pc,
                 sched_pid, finished_count, reg_order, admitted, marks>>

\* scheduler_run: the next registration is taken from MQ1 and its pid is sent
\* SIGCONT; sched_handler runs in the target at once, and a pause() it is in
\* returns. kill fails for a pid that is no process, and the loop continues.
SchedAdmit ==
  /\ sched_pc = "ready"
  /\ ipc_has_msg(mq_ready, MSGTYPE_PROC_REQ)
  /\ LET r == ipc_recv_msg(mq_ready, MSGTYPE_PROC_REQ)
         pid == r.msg.ints[1]
         target == {p \in DOMAIN proc_pc : getpid(p) = pid}
     IN /\ mq_ready' = r.q
        /\ IF target = {}
           THEN UNCHANGED <<scheduled, proc_pc, sched_pc, sched_pid, admitted>>
           ELSE /\ scheduled' = [p \in DOMAIN scheduled |->
                                   IF p \in target THEN 1 ELSE scheduled[p]]
                /\ proc_pc' = [p \in DOMAIN proc_pc |->
                                 IF p \in target /\ proc_pc[p] = "paused"
                                 THEN "check"
                                 ELSE proc_pc[p]]
                /\ sched_pc' = "notes"
                /\ sched_pid' = pid
                /\ admitted' = Append(admitted, pid)
  /\ UNCHANGED <<refs, proc_i, mq_proc, mq_sched, finished_count, reg_order,
                 marks>>

\* scheduler_run: the next notification is taken from MQ2; one whose flag is
\* 0 counts a completion and ends the inner loop, and the while test follows
SchedNote ==
  /\ sched_pc = "notes"
  /\ ipc_has_msg(mq_sched, MSGTYPE_SCHED_NOTIFY)
  /\ LET r == ipc_recv_msg(mq_sched, MSGTYPE_SCHED_NOTIFY)
         from_pid == r.msg.ints[1]
         pfh == r.msg.ints[2]
     IN /\ mq_sched' = r.q
        /\ IF sched_note_finishes(pfh)
           THEN /\ finished_count' = finished_count + 1
                /\ marks' = Append(marks, [pid |-> sched_pid, note |-> r.msg])
                /\ sched_pc' = IF finished_count + 1 < k
                               THEN "ready"
                               ELSE "done"
           ELSE UNCHANGED <<finished_count, marks, sched_pc>>
  /\ UNCHANGED <<refs, proc_pc, proc_i, scheduled, mq_ready, mq_proc,
                 sched_pid, reg_order, admitted>>

\* the messages the pass of the MMU sent, as they go onto the queues
sent_as(msgs, mtype, src, cause) ==
  [i \in 1..Len(msgs) |->
     ipc_msg(mtype, msgs[i].pid,
             IF mtype = MSGTYPE_MMU_REPLY THEN msgs[i].result ELSE msgs[i].pfh,
             0, src, cause)]

\* mmu_run: the next request is taken from MQ3 and handled; the reply goes
\* onto MQ3 and the notification onto MQ2
SysMmu ==
  /\ ipc_has_msg(mq_proc, MSGTYPE_PROC_REQ)
  /\ LET r == ipc_recv_msg(mq_proc, MSGTYPE_PROC_REQ)
         p_ind == r.msg.ints[1]
         page_no == r.msg.ints[2]
         m_req == r.msg.ints[3]
     IN /\ \E oob \in OobChoices(p_ind, page_no, m_req) :
             mmu_run_pass(p_ind, page_no, m_req, oob)
        /\ mq_proc' = r.q \o sent_as(reply', MSGTYPE_MMU_REPLY, r.msg.src,
                                     r.msg.cause)
        /\ mq_sched' = mq_sched \o sent_as(notes', MSGTYPE_SCHED_NOTIFY,
                                           r.msg.src, r.msg.cause)
  /\ UNCHANGED <<op, outstanding, free_order,
                 script, results, refs, proc_pc, proc_i,
                 scheduled, mq_ready, sched_pc, sched_pid, finished_count,
                 reg_order, admitted, marks>>

\* a step of process p
ProcStep(p) ==
  \/ ProcRegister(p)
  \/ ProcCheck(p)
  \/ ProcPause(p)
  \/ ProcSend(p)
  \/ ProcRecv(p)
  \/ ProcEnd(p)

\* a step of process p that leaves the MMU's variables alone
ProcAct(p) ==
  /\ p \in DOMAIN proc_pc
  /\ ProcStep(p)
  /\ UNCHANGED <<k, m, f, pt, ffl, g_ts, procs_cmpltd, mmu_pc, req, reply,
                 notes, outcome, op, outstanding, free_order,
                 script, results,
                 eos_senders>>

\* a step of the scheduler
SchedAct ==
  /\ SchedAdmit \/ SchedNote
  /\ UNCHANGED <<k, m, f, pt, ffl, g_ts, procs_cmpltd, mmu_pc, req, reply,
                 notes, outcome, op, outstanding, free_order,
                 script, results,
                 eos_senders>>

\* the reference strings master_run generates: ref_len pages, each
\* rand() % pgs_per_proc
RefStrings(ref_len) == [1..ref_len -> 0..(m - 1)]

\* the simulation as master_run starts it: stores filled, MMU and scheduler
\* at their receive calls, k processes spawned with their reference strings
InitSys ==
  /\ InitConfig
  /\ pt = master_init_pt(k, m)
  /\ ffl = master_init_ffl(f)
  /\ InitMmu
  /\ \E ref_len \in 0..MaxRefLen : refs \in [0..(k - 1) -> RefStrings(ref_len)]
  /\ proc_pc = [p \in 0..(k - 1) |-> "start"]
  /\ proc_i = [p \in 0..(k - 1) |-> 0]
  /\ scheduled = [p \in 0..(k - 1) |-> 0]
  /\ mq_ready = <<>>
  /\ mq_proc = <<>>
  /\ mq_sched = <<>>
  /\ sched_pc = "ready"
  /\ sched_pid = -1
  /\ finished_count = 0
  /\ reg_order = <<>>
  /\ admitted = <<>>
  /\ marks = <<>>

NextSys ==
  \/ \E p \in 0..(MaxK - 1) : ProcAct(p)
  \/ SchedAct
  \/ SysMmu

SpecSys == InitSys /\ [][NextSys]_vars

\* the same with every process, the scheduler and the MMU running on: the
\* kernel schedules each of them again and again
SpecSysFair ==
  /\ SpecSys
  /\ \A p \in 0..(MaxK - 1) : WF_vars(ProcAct(p))
  /\ WF_vars(SchedAct)
  /\ WF_vars(SysMmu)

\* ================================================================ claims
\* how often frame x is a free entry of list l: the count entries from head on
FreeCount(l, x) ==
  Cardinality({i \in 0..(l.count - 1) :
                 l.frames[(l.head + i) % l.total_frames] = x})

\* the entries the MMU treats as resident (the test of resolve_access)
ResidentPtes == {i \in DOMAIN pt : pt[i].valid > 0}

\* the resident entries that hold frame x
Owners(x) == {i \in ResidentPtes : pt[i].frame_no = x}

\* the entries of the table of process p
TableOf(p) == {pte_addr(p, m, pg) : pg \in 0..(m - 1)}

\* C1: every frame index 0..f-1 is in exactly one place: once among the free
\* entries of the pool, or the frame_no of exactly one valid PTE.
C1_FrameInExactlyOnePlace ==
  \A x \in 0..(f - 1) : FreeCount(ffl, x) + Cardinality(Owners(x)) = 1

\* C2: the number of resident PTEs over all processes never exceeds f.
C2_ResidentAtMostF == Cardinality(ResidentPtes) <= f

\* C3: ffl_alloc on a pool whose count is 0 returns -1 and leaves count, head,
\* tail and frames unchanged.
C3_AllocOnEmptyFails ==
  [][(op'.name = "ffl_alloc" /\ ffl.count = 0)
       => (op'.ret = -1 /\ ffl' = ffl)]_vars

\* C4: under calls of ffl_alloc / ffl_free that never release more than was
\* allocated, count stays within [0, f] after every call.
C4_CountWithinBounds == ffl.count >= 0 /\ ffl.count <= f

\* C5: under the same calls, ffl_alloc never returns a frame that an earlier
\* ffl_alloc returned and that has not been released since.
C5_NeverReturnsOutstanding ==
  [][(op'.name = "ffl_alloc" /\ op'.ret >= 0)
       => outstanding[op'.ret] = 0]_vars

\* C6: k=1, m=2, f=1, bound 2, references 0, 1, 0: each is a fault answered
\* with frame 0 and handled; the second evicts page 0, the third evicts page 1;
\* at the end exactly page 0 is resident, in frame 0.
C6_ScenarioEvicts ==
  (/\ k = 1 /\ m = 2 /\ f = 1
   /\ script = [p_ind |-> 0, refs |-> <<0, 1, 0>>, m_req |-> 2])
  => /\ Len(results) >= 1
          => results[1] = [result |-> 0, pfh |-> 1, outcome |-> "alloc"]
     /\ Len(results) = 1 => ResidentPtes = {0}
     /\ Len(results) >= 2
          => results[2] = [result |-> 0, pfh |-> 1, outcome |-> "evict"]
     /\ Len(results) = 2 => (ResidentPtes = {1} /\ pt[1].frame_no = 0)
     /\ Len(results) >= 3
          => results[3] = [result |-> 0, pfh |-> 1, outcome |-> "evict"]
     /\ Len(results) = 3 => (ResidentPtes = {0} /\ pt[0].frame_no = 0)

\* C7: resolving a request of process p with 0 <= page < m changes no PTE of
\* another process, and the frame a fault of p is resolved into is not a frame
\* a resident PTE of another process holds.
C7_CrossProcessIsolation ==
  [][(req'.page_no >= 0 /\ req'.page_no < m)
       => \A i \in DOMAIN pt \ TableOf(req'.p_ind) :
            /\ pt'[i] = pt[i]
            /\ (notes' # <<>> /\ pt[i].valid > 0)
                 => reply'[1].result # pt[i].frame_no]_vars

\* the request handled by the step is illegal: page equal to the bound, past
\* it, or negative
IllegalReq(r) == r.page_no = r.m_req \/ r.page_no > r.m_req \/ r.page_no < 0

\* the step answers Invalid and changes neither clock, nor PTEs, nor pool, and
\* notifies nobody
AnswersInvalid ==
  /\ reply' = <<[pid |-> req'.p_ind, result |-> MMU_INVALID_PAGE]>>
  /\ g_ts' = g_ts
  /\ pt' = pt
  /\ ffl' = ffl
  /\ notes' = <<>>

\* C8 as stated: a request whose page equals the bound, exceeds it or is
\* negative is answered Invalid, with clock, PTEs and pool unchanged and no
\* notification.
C8_IllegalAlwaysInvalid ==
  [][IllegalReq(req') => AnswersInvalid]_vars

\* C8 amended: the same for every such page number other than the
\* end-of-stream sentinel MMU_END_OF_REF (-9).
C8_IllegalButSentinelInvalid ==
  [][(IllegalReq(req') /\ req'.page_no # MMU_END_OF_REF)
       => AnswersInvalid]_vars

\* C8 witness: a request with page equal to its bound has been answered Invalid
C8_Witness ==
  /\ outcome = "invalid"
  /\ req.page_no = req.m_req
  /\ reply = <<[pid |-> req.p_ind, result |-> MMU_INVALID_PAGE]>>

\* C9: a legal reference to a valid PTE adds one to the clock, sets that PTE's
\* last_used to the new clock, replies its frame_no, and changes neither its
\* frame_no and valid, nor another PTE, nor the pool.
C9_HitTouchesOnly ==
  [][LET idx == pte_addr(req'.p_ind, m, req'.page_no)
     IN (/\ is_legal_page(req'.page_no, req'.m_req)
         /\ idx \in DOMAIN pt
         /\ pt[idx].valid > 0)
        => /\ g_ts' = g_ts + 1
           /\ pt' = [pt EXCEPT ![idx].last_used = g_ts + 1]
           /\ reply' = <<[pid |-> req'.p_ind, result |-> pt[idx].frame_no]>>
           /\ ffl' = ffl
           /\ notes' = <<>>]_vars

\* C9 witness: a hit on a resident page of the table has been answered
C9_Witness ==
  /\ outcome = "hit"
  /\ pte_addr(req.p_ind, m, req.page_no) \in DOMAIN pt
  /\ pt[pte_addr(req.p_ind, m, req.page_no)].last_used = g_ts
  /\ reply[1].result = pt[pte_addr(req.p_ind, m, req.page_no)].frame_no

FaultInTable ==
  /\ is_legal_page(req'.page_no, req'.m_req)
  /\ req'.page_no < m
  /\ pt[pte_addr(req'.p_ind, m, req'.page_no)].valid <= 0

C12_FaultUnresolvable ==
  [][(/\ FaultInTable
      /\ ffl.count = 0
      /\ TableOf(req'.p_ind) \cap ResidentPtes = {})
       => /\ Len(reply') = 1
          /\ reply'[1].pid = req'.p_ind
          /\ reply'[1].result < 0
          /\ reply'[1].result \notin {MMU_INVALID_PAGE, MMU_END_OF_REF}
          /\ pt' = pt
          /\ ffl' = ffl
          /\ g_ts' = g_ts
          /\ notes' = <<>>]_vars

\* the pages of pid's table whose valid field is set
ValidPages(t, pid, mm) ==
  {p \in 0..(mm - 1) : t[pte_addr(pid, mm, p)].valid # 0}

\* the reference selector: the valid page with the smallest last_used, the
\* lowest page number among equals; -1 when no page is valid
LruReference(t, pid, mm) ==
  LET V == ValidPages(t, pid, mm)
      lu(p) == t[pte_addr(pid, mm, p)].last_used
  IN IF V = {}
     THEN -1
     ELSE CHOOSE p \in V :
            \A q \in V : lu(p) < lu(q) \/ (lu(p) = lu(q) /\ p <= q)

HandledFault ==
  /\ FaultInTable
  /\ pt'[pte_addr(req'.p_ind, m, req'.page_no)].valid > 0

\* C14: for an access request the MMU sends exactly one reply, and it
\* notifies the scheduler exactly when the request was a fault that was
\* handled, then once and with the flag set; hits, illegal references and
\* unresolvable faults are not notified.
C14_OneReplyNoteIffHandled ==
  [][req'.page_no # MMU_END_OF_REF
       => /\ Len(reply') = 1
          /\ reply'[1].pid = req'.p_ind
          /\ notes' = IF HandledFault
                      THEN <<[pid |-> req'.p_ind, pfh |-> 1]>>
                      ELSE <<>>]_vars

\* C15: on the end-of-stream sentinel the MMU sends the sender one reply, the
\* end-of-stream acknowledgement, and the scheduler one notification with the
\* fault-handled flag clear, and changes no PTE, not the pool, not the clock.
C15_SentinelAckedAndNotified ==
  [][req'.page_no = MMU_END_OF_REF
       => /\ reply' = <<[pid |-> req'.p_ind, result |-> MMU_END_OF_REF]>>
          /\ notes' = <<[pid |-> req'.p_ind, pfh |-> 0]>>
          /\ pt' = pt
          /\ ffl' = ffl
          /\ g_ts' = g_ts]_vars

\* C15 witness: after a fault was resolved, a sentinel has been acknowledged
\* and notified
C15_Witness ==
  /\ outcome = "eos"
  /\ req.page_no = MMU_END_OF_REF
  /\ reply = <<[pid |-> req.p_ind, result |-> MMU_END_OF_REF]>>
  /\ notes = <<[pid |-> req.p_ind, pfh |-> 0]>>
  /\ g_ts > 0
  /\ ResidentPtes # {}

\* C16: the MMU is out of its receive loop exactly when the number of
\* distinct processes that have sent the sentinel has reached k; a sentinel
\* repeated by one process is not counted twice.
C16_StopsAtKDistinctSenders ==
  /\ mmu_pc = "done" => Cardinality(eos_senders) = k
  /\ Cardinality(eos_senders) = k => mmu_pc = "done"

\* C17: the scheduler admits workloads in the order their registrations were
\* sent: the pids it has resumed are, in order, the first registrations.
C17_AdmitsInRegistrationOrder ==
  /\ Len(admitted) <= Len(reg_order)
  /\ admitted = SubSeq(reg_order, 1, Len(admitted))

\* C17 witness: process 1 registered before process 0, a fault of the first
\* admitted process was notified, and both were admitted in that order
C17_Witness ==
  /\ reg_order = <<getpid(1), getpid(0)>>
  /\ admitted = reg_order
  /\ g_ts > 0

\* the process has been sent the resume signal and has neither sent its end
\* marker nor returned
Running(p) ==
  /\ \E i \in 1..Len(admitted) : admitted[i] = getpid(p)
  /\ proc_pc[p] # "exited"

\* C18: at most one workload is Running, and the scheduler has resumed at
\* most one workload more than it has marked finished.
C18_AtMostOneRunning ==
  /\ Cardinality({p \in DOMAIN proc_pc : Running(p)}) <= 1
  /\ Len(admitted) <= finished_count + 1

\* C18 witness: the second workload is Running, issuing a request, after the
\* first was marked finished
C18_Witness ==
  /\ Len(admitted) = 2
  /\ finished_count = 1
  /\ \E p \in DOMAIN proc_pc : Running(p) /\ proc_pc[p] = "recv"

\* C19: a completion the scheduler counted for the workload it had resumed
\* came from a notification with the flag clear, that carries that
\* workload's pid and that the MMU sent for that workload's end marker.
C19_FinishOnlyOnOwnSentinel ==
  \A i \in 1..Len(marks) :
    /\ marks[i].note.ints[2] = 0
    /\ marks[i].note.ints[1] = marks[i].pid
    /\ marks[i].note.cause = "end"
    /\ getpid(marks[i].note.src) = marks[i].pid

\* C19 witness: a workload whose fault was notified before has been marked
\* finished
C19_Witness ==
  /\ Len(marks) >= 1
  /\ marks[1].note.cause = "end"
  /\ g_ts > 0
  /\ ResidentPtes # {}

\* every reference of every workload is legal for the bound it is sent with
AllRefsLegal ==
  \A p \in DOMAIN refs :
    \A i \in 1..Len(refs[p]) : is_legal_page(refs[p][i], Len(refs[p]))

\* every workload was admitted and marked finished, the scheduler stopped
\* with k completions and the MMU with k sentinels
AllFinished ==
  /\ \A p \in DOMAIN proc_pc :
       /\ \E i \in 1..Len(admitted) : admitted[i] = getpid(p)
       /\ \E i \in 1..Len(marks) : marks[i].pid = getpid(p)
  /\ sched_pc = "done"
  /\ finished_count = k
  /\ mmu_pc = "done"
  /\ procs_cmpltd = k

\* C20: with all references legal, every fair run ends with every workload
\* admitted and marked finished, the scheduler stopped after k completions
\* and the MMU after the k-th sentinel: a run that can take no step has
\* reached that end.
C20_LegalRunsFinish ==
  AllRefsLegal => (AllFinished \/ ENABLED NextSys)

\* the requests of process p (not its end marker) that wait on MQ3
PendingReqs(q, p) ==
  {i \in 1..Len(q) : /\ q[i].mtype = MSGTYPE_PROC_REQ
                      /\ q[i].src = p
                      /\ q[i].cause = "req"}

\* C21: a workload never has two requests waiting unresolved, and the reply
\* it takes after a request is the reply the MMU sent for a request of that
\* same workload, not one sent for another workload or for an end marker.
C21_OneOutstandingOwnReply ==
  [][\A p \in DOMAIN proc_pc :
       /\ Cardinality(PendingReqs(mq_proc', p)) <= 1
       /\ (proc_pc[p] = "recv" /\ proc_pc'[p] # "recv")
            => LET taken == ipc_recv_msg(mq_proc, MSGTYPE_MMU_REPLY).msg
               IN taken.src = p /\ taken.cause = "req"]_vars

\* C22: the pool hands out frames first in, first out: a frame ffl_alloc
\* returns while frames are free is the one that has been free longest (from
\* a fresh pool 0, 1, ..., f-1; a released frame after those free before it).
C22_PoolIsFifo ==
  [][(op'.name = "ffl_alloc" /\ op'.ret >= 0 /\ free_order # <<>>)
       => op'.ret = free_order[1]]_vars

\* C23: ffl_free of an index outside [0, f), or on a pool with count = f,
\* returns failure and leaves count, head, tail and frames unchanged.
C23_FreeRejectsBadIndexAndFull ==
  [][(/\ op'.name = "ffl_free"
      /\ (op'.arg < 0 \/ op'.arg >= f \/ ffl.count = f))
       => (op'.ret = -1 /\ ffl' = ffl)]_vars

\* C23 witness: after an allocation and a release refilled the pool, the
\* release of a frame in range was refused because the pool is full
C23_Witness ==
  /\ op.name = "ffl_free"
  /\ op.arg \in 0..(f - 1)
  /\ op.ret = -1
  /\ ffl.count = f
  /\ ffl.head # 0

\* C24: pt_set_mapping called with page outside [0, m) or with frame < 0
\* returns -1 and leaves every PTE as it was; called with page in [0, m) and
\* frame >= 0 it returns 0, makes the addressed PTE {frame, valid 1,
\* last_used = timestamp} and leaves every other PTE as it was.
C24_SetMappingContract ==
  [][op'.name = "pt_set_mapping"
       => LET pid == op'.arg[1]
              page_no == op'.arg[2]
              frame_no == op'.arg[3]
              ts == op'.arg[4]
          IN IF page_no < 0 \/ page_no >= m \/ frame_no < 0
             THEN op'.ret = -1 /\ pt' = pt
             ELSE /\ op'.ret = 0
                  /\ pt'[pid * m + page_no] =
                       [frame_no |-> frame_no, valid |-> 1, last_used |-> ts]
                  /\ \A i \in DOMAIN pt :
                       i # pid * m + page_no => pt'[i] = pt[i]]_vars

\* a mapping written over the last page of a process that is not the last
C24_Witness ==
  /\ op.name = "pt_set_mapping"
  /\ op.ret = 0
  /\ op.arg[1] = 0 /\ op.arg[2] = m - 1 /\ k > 1
  /\ pt[m - 1] = [frame_no |-> op.arg[3], valid |-> 1, last_used |-> op.arg[4]]
  /\ op.arg[4] > 0

\* the valid field of the PTE of (pid, page_no) reads as true in C
PteValid(t, pid, page_no) ==
  page_no \in 0..(m - 1) /\ t[pid * m + page_no].valid # 0

BeforeFirstRequest == outcome = "none"

\* C26: before the MMU resolves its first request the free frame list is
\* full: count = f and each frame 0..f-1 is a free entry exactly once.
C26_PoolFullAtStart ==
  BeforeFirstRequest
    => /\ ffl.count = f
       /\ \A x \in 0..(f - 1) : FreeCount(ffl, x) = 1

\* C27: before the MMU resolves its first request every PTE is
\* {frame_no -1, valid 0, last_used 0}; pt_init_all fails when k or m is not
\* positive.
C27_TableClearAtStart ==
  /\ BeforeFirstRequest
       => \A i \in DOMAIN pt :
            pt[i] = [frame_no |-> -1, valid |-> 0, last_used |-> 0]
  /\ \A kk \in -1..k, mm \in -1..m :
       (kk <= 0 \/ mm <= 0) => pt_init_all(kk, mm).rc = -1

\* the entries of table t that the MMU treats as resident
ResidentIn(t) == {i \in DOMAIN t : t[i].valid > 0}

\* C28: g_ts never decreases: a pass of the MMU that ends in a hit, an
\* allocation or an eviction raises it by exactly one, and a pass for an
\* illegal page, an unresolvable fault or an end-of-stream sentinel leaves it
\* unchanged; after every pass the last_used values of the resident PTEs are
\* pairwise distinct and none exceeds g_ts.
C28_ClockTicksOnResidentAccess ==
  [][/\ g_ts' >= g_ts
     /\ outcome' \in {"hit", "alloc", "evict"} => g_ts' = g_ts + 1
     /\ outcome' \in {"invalid", "unresolvable", "eos"} => g_ts' = g_ts
     /\ \A i, j \in ResidentIn(pt') :
          i # j => pt'[i].last_used # pt'[j].last_used
     /\ \A i \in ResidentIn(pt') : pt'[i].last_used <= g_ts']_vars

\* a hit after two allocations: two resident PTEs, the older one re-stamped
C28_Witness ==
  /\ outcome = "hit"
  /\ g_ts = 3
  /\ \E i, j \in ResidentPtes :
       i # j /\ pt[i].last_used = 3 /\ pt[j].last_used = 2

\* C29: in every state, a PTE is resident (valid > 0, the test of the MMU)
\* exactly when its frame_no is a frame index in [0, f); a PTE that is not
\* resident carries frame_no = -1; and the frame of a resident PTE is not a
\* free entry of the free frame list.
C29_ValidIffMapped ==
  \A i \in DOMAIN pt :
    /\ (pt[i].valid > 0) <=> (pt[i].frame_no \in 0..(f - 1))
    /\ ~(pt[i].valid > 0) => pt[i].frame_no = -1
    /\ (pt[i].valid > 0) => FreeCount(ffl, pt[i].frame_no) = 0

\* a table holding a resident PTE on the last frame next to one never mapped
C29_Witness ==
  /\ outcome = "alloc"
  /\ \E i, j \in DOMAIN pt :
       /\ pt[i].valid = 1 /\ pt[i].frame_no = f - 1 /\ f > 1
       /\ pt[j].valid # 1 /\ pt[j].frame_no = -1

\* process p returned from inside its reference loop: on the reply
\* MMU_INVALID_PAGE, the only return there
InvalidExited(p) == proc_pc[p] = "exited" /\ proc_i[p] < Len(refs[p])

\* the end markers of process p on MQ3
EndMarkers(q, p) ==
  {i \in 1..Len(q) : q[i].mtype = MSGTYPE_PROC_REQ /\ q[i].src = p
                     /\ q[i].cause = "end"}

\* C30: a process that takes a reply carrying MMU_INVALID_PAGE returns at
\* once, with references left and without sending the end marker; in every
\* step after that the scheduler counts no completion, admits no process and
\* stays in its wait for a notification, the MMU stays in its receive loop,
\* and no end marker of that process is ever on MQ3.
C30_InvalidStallsScheduler ==
  [][/\ \A p \in DOMAIN proc_pc :
          (/\ proc_pc[p] = "recv"
           /\ proc_pc'[p] # "recv"
           /\ ipc_recv_msg(mq_proc, MSGTYPE_MMU_REPLY).msg.ints[2]
                = MMU_INVALID_PAGE)
            => /\ proc_pc'[p] = "exited"
               /\ InvalidExited(p)'
               /\ mq_proc' = ipc_recv_msg(mq_proc, MSGTYPE_MMU_REPLY).q
     /\ \A p \in DOMAIN proc_pc :
          InvalidExited(p)
            => /\ InvalidExited(p)'
               /\ EndMarkers(mq_proc', p) = {}
               /\ finished_count' = finished_count
               /\ marks' = marks
               /\ admitted' = admitted
               /\ sched_pc' = "notes"
               /\ mmu_pc' = "recv"]_vars

\* the admitted process has returned on MMU_INVALID_PAGE, the scheduler waits
\* for its notification, and another registered process waits on MQ1
C30_Witness ==
  \E p \in DOMAIN proc_pc :
    /\ InvalidExited(p)
    /\ sched_pc = "notes"
    /\ sched_pid = getpid(p)
    /\ mq_ready # <<>>
    /\ mq_proc = <<>>
    /\ finished_count = 0

\* the pass just made took the allocation branch of resolve_access and its
\* call of pt_set_mapping returned -1
MappingCallFailed ==
  /\ outcome' = "alloc"
  /\ LET a == ffl_alloc(ffl)
     IN pt_set_mapping(pt, req'.p_ind, m, req'.page_no, a.ret, g_ts + 1).rc
          = -1

\* C31: when a library call made while a request is resolved reports
\* failure, the MMU aborts: it sends no reply carrying a frame, sends no
\* notification of a handled fault, and does not go on to the next request.
C31_FailedCallAborts ==
  [][MappingCallFailed
       => /\ mmu_pc' # "recv"
          /\ reply' = <<>>
          /\ notes' = <<>>]_vars

\* C32: a pass of the MMU that resolves a request of process p whose page is
\* legal for the bound it carries reads the PTE of an index inside the table
\* of p, changes no PTE outside that table, and on a hit returns the frame of
\* a resident PTE of p.
C32_AccessStaysInOwnTable ==
  [][is_legal_page(req'.page_no, req'.m_req)
       => /\ pte_addr(req'.p_ind, m, req'.page_no) \in TableOf(req'.p_ind)
          /\ \A i \in DOMAIN pt \ TableOf(req'.p_ind) : pt'[i] = pt[i]
          /\ outcome' = "hit"
               => \E i \in TableOf(req'.p_ind) :
                    /\ pt[i].valid > 0
                    /\ reply'[1].result = pt[i].frame_no]_vars

\* the scheduler has sent SIGCONT to process p
Signalled(p) == \E i \in 1..Len(admitted) : admitted[i] = getpid(p)

\* process p is in `while (!scheduled) pause();`
InWaitLoop(p) == proc_pc[p] \in {"check", "topause", "paused"}

\* C33: no wakeup is lost: a process the scheduler has sent SIGCONT to, and
\* that is still in its wait loop, can take its next step, so that it goes on
\* to leave the loop; it is never blocked in pause() with the signal already
\* delivered.
C33_NoLostWakeup ==
  \A p \in DOMAIN proc_pc :
    (Signalled(p) /\ InWaitLoop(p)) => ENABLED ProcAct(p)

\* sequence q without its entries equal to x
seq_without(q, x) ==
  LET keep == {i \in 1..Len(q) : q[i] # x}
      nth(n) == CHOOSE i \in keep : Cardinality({j \in keep : j < i}) = n - 1
  IN [n \in 1..Cardinality(keep) |-> q[nth(n)]]

\* the references of the script resolved so far
History == SubSeq(script.refs, 1, Len(results))

\* every reference resolved so far is a page of the table below the bound
LegalHistory ==
  \A n \in 1..Len(History) :
    History[n] \in 0..(m - 1) /\ History[n] < script.m_req

RECURSIVE LruModel(_, _)
\* the abstract model: the pages of one process resident after the references
\* h on ff frames, least recently referenced first; a reference to a resident
\* page moves it to the end, a fault takes a free frame while there is one
\* and otherwise replaces the first page
LruModel(h, ff) ==
  IF h = <<>>
  THEN <<>>
  ELSE LET before == LruModel(SubSeq(h, 1, Len(h) - 1), ff)
           pg == h[Len(h)]
       IN IF \E i \in 1..Len(before) : before[i] = pg
          THEN Append(seq_without(before, pg), pg)
          ELSE IF Len(before) < ff
               THEN Append(before, pg)
               ELSE Append(Tail(before), pg)

\* reference n of the history is a fault the abstract model resolves by
\* evicting
ModelEvicts(n) ==
  LET before == LruModel(SubSeq(History, 1, n - 1), f)
  IN /\ \A i \in 1..Len(before) : before[i] # History[n]
     /\ Len(before) = f

\* the pages of process p the MMU treats as resident
ResidentPagesOf(p) ==
  {pg \in 0..(m - 1) : pt[pte_addr(p, m, pg)].valid > 0}

\* C34: for one process referencing pages of its table, after every resolved
\* request the pages the MMU holds resident are those the abstract LRU model
\* holds after the same references, and a request is resolved by eviction
\* exactly when the model evicts: the victim is the resident page referenced
\* longest ago.
C34_TrueLocalLru ==
  LegalHistory
    => /\ ResidentPagesOf(script.p_ind)
            = {LruModel(History, f)[i] : i \in 1..Len(LruModel(History, f))}
       /\ \A n \in 1..Len(results) :
            (results[n].outcome = "evict") <=> ModelEvicts(n)

\* C35: in every state, a page choose_lru_victim_local returns for a process
\* is one the MMU treats as resident (valid > 0, so that a reference to it is
\* a hit) and its frame_no is a frame index in [0, f): an eviction of it does
\* not yield the frame -1.
C35_SelectorAgreesWithResidency ==
  \A p \in 0..(k - 1) :
    LET victim_page == choose_lru_victim_local(pt, p, m)
    IN victim_page >= 0
         => /\ pt[pte_addr(p, m, victim_page)].valid > 0
            /\ pt[pte_addr(p, m, victim_page)].frame_no \in 0..(f - 1)

====
